---------------------------- MODULE Spec2Model ----------------------------
(***************************************************************************)
(* Model of backend/open_webui/routers/dashboard.py: the five read-only    *)
(* admin dashboard operations (overview, per-user storage, per-group       *)
(* activity, content-type breakdown, time series) over a store of users,   *)
(* groups, chats, files, knowledge entries and messages.                   *)
(*                                                                         *)
(* Number representation.  Storage figures are Python floats in the code.  *)
(* Here an unrounded storage figure is the exact rational x MB held as the *)
(* integer x * MbDen (MbDen = 1024*1024*100), so size/(1024*1024), n*1,    *)
(* n*0.1, n*0.01 and x*0.3 are all exact integers.  round(x, 2) is held as *)
(* the integer number of hundredths and rounds half to even, as Python's   *)
(* round does on an exactly representable tie.  Binary floating-point      *)
(* representation error is not modelled.                                   *)
(*                                                                         *)
(* Message.created_at is in nanoseconds and exceeds the checker's integer  *)
(* range, so a nanosecond value is held as its two base-10^9 digits        *)
(* [s |-> seconds, ns |-> nanoseconds below one second].                   *)
(***************************************************************************)
EXTENDS Integers, Sequences, FiniteSets, TLC

VARIABLES
    users,      \* rows of the user table, in fetch order
    groups,     \* rows of the group table, in fetch order
    chats,      \* rows of the chat table
    files,      \* rows of the file table
    knowledge,  \* rows of the knowledge table
    messages,   \* rows of the message table
    resp        \* the outcome of the request in progress, NoResp when idle

vars == <<users, groups, chats, files, knowledge, messages, resp>>
store == <<users, groups, chats, files, knowledge, messages>>

----------------------------------------------------------------------------
(* Bounds of the model *)

\* rows in chats, files, knowledge and messages together
MaxEntities == 2

----------------------------------------------------------------------------
(* Program constants *)

DaySeconds == 24 * 60 * 60
BytesPerMB == 1024 * 1024
MbDen == BytesPerMB * 100
TopN == 10
HTTP_400_BAD_REQUEST == 400
HTTP_500_INTERNAL_SERVER_ERROR == 500

ImageContentTypes == {"image/png", "image/jpeg", "image/gif", "image/webp"}

\* int(time.time()) read by a request
Now == 100 * DaySeconds + 4321

----------------------------------------------------------------------------
(* Generic helpers *)

Min(a, b) == IF a < b THEN a ELSE b
Max(a, b) == IF a > b THEN a ELSE b

RECURSIVE SumSeq(_)
SumSeq(s) == IF s = <<>> THEN 0 ELSE Head(s) + SumSeq(Tail(s))

RECURSIVE Repeat(_, _)
Repeat(s, n) == IF n <= 0 THEN <<>> ELSE s \o Repeat(s, n - 1)

RECURSIVE Concat(_)
Concat(ss) == IF ss = <<>> THEN <<>> ELSE Head(ss) \o Concat(Tail(ss))

\* Python seq[:n]
SliceTo(s, n) ==
    IF n >= 0 THEN SubSeq(s, 1, Min(n, Len(s)))
    ELSE SubSeq(s, 1, Max(Len(s) + n, 0))

\* n/d rounded to the nearest integer, an exact tie going to the even one
RoundHalfEven(n, d) ==
    LET q == n \div d
        r == n % d
    IN  IF 2 * r < d THEN q
        ELSE IF 2 * r > d THEN q + 1
        ELSE IF q % 2 = 0 THEN q ELSE q + 1

\* round(x, 2) of a storage figure x (held as x * MbDen), in hundredths of a MB
round2(x) == RoundHalfEven(x, BytesPerMB)

\* round(count / total * 100, 2), in hundredths of a percent
round2_percentage(count, total) == RoundHalfEven(count * 10000, total)

\* as to_ns, with the conversion left out: the number of seconds is taken
\* for a number of nanoseconds
to_ns_unconverted(seconds) == [s |-> seconds \div 1000000000, ns |-> seconds % 1000000000]

\* seconds * 1_000_000_000 as a nanosecond value
to_ns(seconds) == [s |-> seconds, ns |-> 0]

\* a >= b and a < b on nanosecond values
NsGeq(a, b) == a.s > b.s \/ (a.s = b.s /\ a.ns >= b.ns)
NsLt(a, b) == a.s < b.s \/ (a.s = b.s /\ a.ns < b.ns)

----------------------------------------------------------------------------
(* The store: sample rows *)

\* File.meta: a JSON value.  pytype is its Python type, keys the keys of a
\* dict; content_type and size are read only when the key is present.
MetaNone == [pytype |-> "NoneType", keys |-> {}, content_type |-> "", size |-> 0]
MetaStr == [pytype |-> "str", keys |-> {}, content_type |-> "", size |-> 0]
MetaEmpty == [pytype |-> "dict", keys |-> {}, content_type |-> "", size |-> 0]
MetaPng ==
    [pytype |-> "dict", keys |-> {"name", "content_type", "size"},
     content_type |-> "image/png", size |-> BytesPerMB]
MetaSvg ==
    [pytype |-> "dict", keys |-> {"name", "content_type", "size"},
     content_type |-> "image/svg+xml", size |-> BytesPerMB \div 8]
MetaJpegNoSize ==
    [pytype |-> "dict", keys |-> {"name", "content_type"},
     content_type |-> "image/jpeg", size |-> 0]
MetaSmall ==
    [pytype |-> "dict", keys |-> {"name", "size"},
     content_type |-> "", size |-> 5300]

Metas == {MetaNone, MetaStr, MetaEmpty, MetaPng, MetaSvg, MetaJpegNoSize, MetaSmall}

UserRows ==
    << [id |-> "u1", last_active_at |-> Now - DaySeconds],
       [id |-> "u2", last_active_at |-> Now - 10 * DaySeconds],
       [id |-> "u3", last_active_at |-> Now - 40 * DaySeconds] >>

GroupRows ==
    << [id |-> "g1", user_ids |-> <<"u1">>],
       [id |-> "g2", user_ids |-> <<"u2", "u3">>],
       [id |-> "g3", user_ids |-> <<"u2", "u1">>],
       [id |-> "g4", user_ids |-> <<>>] >>

UserIds == {UserRows[i].id : i \in 1..Len(UserRows)}

\* a store with more users and groups than the overview's top lists hold
TopUserNames ==
    <<"u1", "u2", "u3", "u4", "u5", "u6", "u7", "u8", "u9", "u10", "u11", "u12">>
TopGroupNames ==
    <<"g1", "g2", "g3", "g4", "g5", "g6", "g7", "g8", "g9", "g10", "g11", "g12">>

TopUserRows ==
    [i \in 1..Len(TopUserNames) |->
       [id |-> TopUserNames[i], last_active_at |-> Now - i * DaySeconds]]

\* group i holds user i; the last two hold a second user as well
TopGroupRows ==
    [i \in 1..Len(TopGroupNames) |->
       [id |-> TopGroupNames[i],
        user_ids |-> IF i = 11 THEN <<"u11", "u2">>
                     ELSE IF i = 12 THEN <<"u12", "u11">>
                     ELSE <<TopUserNames[i]>>]]

TopOwners == {"u2", "u11", "u12"}

\* creation times (seconds) of the rows written under Spec and under SpecTS
T0 == Now - DaySeconds - 5
TimeSamples ==
    { Now - 7 * DaySeconds - 1, Now - 7 * DaySeconds,
      Now - 6 * DaySeconds, Now - 1, Now }
\* nanoseconds below the second of a message's creation time
NsSamples == {0, 999999999}

\* request inputs
Limits == {-1, 0, 1, 2, 50}
UserLimits == {0, 1, 2, 50}
Periods == {"7d", "30d", "90d", "60d", "7D"}
\* the query of the request at which the store raises (0: none does)
FailPoints == {0, 1, 4, 16}

----------------------------------------------------------------------------
(* Classifier and Estimator *)

\* `file.meta and isinstance(file.meta, dict)`
meta_is_dict(meta) ==
    /\ meta.pytype = "dict"
    /\ meta.keys # {}

\* file.meta.get('content_type', '')
meta_content_type(meta) ==
    IF "content_type" \in meta.keys THEN meta.content_type ELSE ""

\* as is_image, with one more media type let through
is_image_svg_too(file) ==
    /\ meta_is_dict(file.meta)
    /\ meta_content_type(file.meta) \in ImageContentTypes \cup {"image/svg+xml"}

is_image(file) ==
    /\ meta_is_dict(file.meta)
    /\ meta_content_type(file.meta) \in ImageContentTypes

has_size(file) ==
    /\ meta_is_dict(file.meta)
    /\ "size" \in file.meta.keys

\* file.meta['size'] / (1024 * 1024)
file_size_mb(file) == file.meta.size * (MbDen \div BytesPerMB)

count_images(file_list) == Len(SelectSeq(file_list, is_image))

\* as files_storage_mb_of, with each file's figure rounded to 2 decimals
\* before it is added
files_storage_mb_rounded_per_file(file_list) ==
    SumSeq([i \in 1..Len(file_list) |->
              IF has_size(file_list[i])
              THEN round2(file_size_mb(file_list[i])) * BytesPerMB ELSE 0])

files_storage_mb_of(file_list) ==
    SumSeq([i \in 1..Len(file_list) |->
              IF has_size(file_list[i]) THEN file_size_mb(file_list[i]) ELSE 0])

knowledge_mb(n) == n * MbDen
chats_mb(n) == n * (MbDen \div 10)
messages_mb(n) == n * (MbDen \div 100)
images_mb(files_mb) == (files_mb * 3) \div 10

----------------------------------------------------------------------------
(* Collector: the queries the handlers issue *)

by_user(rows, uid) == SelectSeq(rows, LAMBDA r : r.user_id = uid)

\* as in_window, with the window closed at its end
in_window_closed(t, period_start, period_end) == t >= period_start /\ t <= period_end

in_window(t, period_start, period_end) == t >= period_start /\ t < period_end

created_between(rows, period_start, period_end) ==
    SelectSeq(rows, LAMBDA r : in_window(r.created_at, period_start, period_end))

messages_between(period_start_ns, period_end_ns) ==
    SelectSeq(messages, LAMBDA m :
        NsGeq(m.created_at, period_start_ns) /\ NsLt(m.created_at, period_end_ns))

\* Users.get_users(limit=limit): all users, or the first `limit` of them
get_users(limit) == IF limit > 0 THEN SliceTo(users, limit) ELSE users

\* Groups.get_groups()
get_groups == groups

----------------------------------------------------------------------------
(* Outcomes *)

NoResp ==
    [op |-> "none", status |-> 0, detail |-> "", limit |-> 0, period |-> "",
     failAt |-> 0, body |-> <<>>, qlog |-> <<>>]

\* The try block of a handler: the queries it would issue in order and the
\* value it returns.  The store raising at query failAt abandons the block.
TryBlock(qlog, value, failAt) ==
    IF failAt \in 1..Len(qlog)
    THEN [raised |-> "OperationalError", status |-> 0, detail |-> "",
          value |-> <<>>, qlog |-> SubSeq(qlog, 1, failAt)]
    ELSE [raised |-> "", status |-> 0, detail |-> "", value |-> value, qlog |-> qlog]

RaiseHTTPException(status_code, detail, qlog) ==
    [raised |-> "HTTPException", status |-> status_code, detail |-> detail,
     value |-> <<>>, qlog |-> qlog]

\* as CaughtByExceptException, had the clause been `except HTTPException`
CaughtByExceptHTTPException == {"HTTPException"}

\* Exception classes `except Exception` catches: HTTPException derives
\* from Exception, as the store's errors do.
CaughtByExceptException == {"HTTPException", "OperationalError"}

\* `except Exception as e: log.error(...); raise HTTPException(500, detail)`
ExceptClause(op, limit, period, failAt, r, detail500) ==
    IF r.raised \in CaughtByExceptException
    THEN [op |-> op, status |-> HTTP_500_INTERNAL_SERVER_ERROR, detail |-> detail500,
          limit |-> limit, period |-> period, failAt |-> failAt,
          body |-> <<>>, qlog |-> r.qlog]
    ELSE IF r.raised # ""
    THEN [op |-> op, status |-> r.status, detail |-> r.detail,
          limit |-> limit, period |-> period, failAt |-> failAt,
          body |-> <<>>, qlog |-> r.qlog]
    ELSE [op |-> op, status |-> 200, detail |-> "",
          limit |-> limit, period |-> period, failAt |-> failAt,
          body |-> r.value, qlog |-> r.qlog]

----------------------------------------------------------------------------
(* list.sort(key=..., reverse=True) *)

\* Position of a new key among keys already sorted descending: behind every
\* key that is not smaller, so equal keys keep their original order.
RECURSIVE insert_pos(_, _, _)
insert_pos(sorted_keys, k, i) ==
    IF i > Len(sorted_keys) \/ sorted_keys[i] < k THEN i
    ELSE insert_pos(sorted_keys, k, i + 1)

InsertAt(s, i, x) == SubSeq(s, 1, i - 1) \o <<x>> \o SubSeq(s, i, Len(s))

\* The order (a sequence of indices into keys) a stable descending sort gives
RECURSIVE sort_order_from(_, _, _)
sort_order_from(keys, order, n) ==
    IF n > Len(keys) THEN order
    ELSE LET sorted_keys == [j \in 1..Len(order) |-> keys[order[j]]]
             p == insert_pos(sorted_keys, keys[n], 1)
         IN  sort_order_from(keys, InsertAt(order, p, n), n + 1)

\* as sort_reverse, by sorting ascending and reversing: equal keys end up
\* in the reverse of their original order
sort_reverse_unstable(keys) ==
    LET n == Len(keys)
        ascending == sort_order_from([j \in 1..n |-> 0 - keys[j]], <<>>, 1)
    IN  [j \in 1..n |-> ascending[n + 1 - j]]

sort_reverse(keys) == sort_order_from(keys, <<>>, 1)

sorted_by(rows, keys) ==
    LET order == sort_reverse(keys)
    IN  [j \in 1..Len(rows) |-> rows[order[j]]]

----------------------------------------------------------------------------
(* GET /users/storage *)

PerUserQueries == <<"chat", "file", "file", "knowledge", "message">>

user_row(user_obj) ==
    LET user_chats == Len(by_user(chats, user_obj.id))
        user_file_list == by_user(files, user_obj.id)
        user_files == Len(user_file_list)
        user_images == count_images(user_file_list)
        user_knowledge == Len(by_user(knowledge, user_obj.id))
        user_messages == Len(by_user(messages, user_obj.id))
        user_storage_mb ==
            files_storage_mb_of(user_file_list) + knowledge_mb(user_knowledge)
              + chats_mb(user_chats) + messages_mb(user_messages)
    IN  [user_id |-> user_obj.id,
         total_chats |-> user_chats,
         total_files |-> user_files,
         total_images |-> user_images,
         total_knowledge |-> user_knowledge,
         total_messages |-> user_messages,
         storage_usage_mb |-> round2(user_storage_mb),
         last_active |-> user_obj.last_active_at]

\* as get_users_storage_stats, with every user fetched and the limit applied
\* to the sorted list, as the group listing does
get_users_storage_stats_capped_after_sort(limit, failAt) ==
    LET fetched == get_users(0)
        user_stats == [i \in 1..Len(fetched) |-> user_row(fetched[i])]
        keys == [i \in 1..Len(user_stats) |-> user_stats[i].storage_usage_mb]
        qlog == <<"user">> \o Repeat(PerUserQueries, Len(fetched))
        sorted == sorted_by(user_stats, keys)
    IN  ExceptClause("users_storage", limit, "", failAt,
                     TryBlock(qlog, IF limit > 0 THEN SliceTo(sorted, limit) ELSE sorted,
                              failAt),
                     "Failed to get users storage statistics")

get_users_storage_stats(limit, failAt) ==
    LET fetched == get_users(limit)
        user_stats == [i \in 1..Len(fetched) |-> user_row(fetched[i])]
        keys == [i \in 1..Len(user_stats) |-> user_stats[i].storage_usage_mb]
        qlog == <<"user">> \o Repeat(PerUserQueries, Len(fetched))
    IN  ExceptClause("users_storage", limit, "", failAt,
                     TryBlock(qlog, sorted_by(user_stats, keys), failAt),
                     "Failed to get users storage statistics")

----------------------------------------------------------------------------
(* GET /groups/activity *)

\* One pass of `for user_id in group.user_ids`: what one member adds
member_contribution(user_id) ==
    LET user_chats == Len(by_user(chats, user_id))
        user_file_list == by_user(files, user_id)
        user_files == Len(user_file_list)
        user_images_count == count_images(user_file_list)
        user_knowledge == Len(by_user(knowledge, user_id))
        user_messages == Len(by_user(messages, user_id))
    IN  [chats |-> user_chats,
         files |-> user_files,
         images |-> user_images_count,
         knowledge |-> user_knowledge,
         messages |-> user_messages,
         storage_mb |->
             files_storage_mb_of(user_file_list) + knowledge_mb(user_knowledge)
               + chats_mb(user_chats) + messages_mb(user_messages)]

\* as group_members, leaving out the users already counted in a group
\* fetched earlier
group_members_dedup(group) ==
    LET earlier == {u \in UserIds :
                      \E i \in 1..Len(groups) :
                          /\ \E j \in (i + 1)..Len(groups) : groups[j].id = group.id
                          /\ \E k \in 1..Len(groups[i].user_ids) :
                                groups[i].user_ids[k] = u}
    IN  SelectSeq(group.user_ids, LAMBDA u : u \notin earlier)

\* the user ids `for user_id in group.user_ids` visits
group_members(group) == group.user_ids

group_row(group) ==
    LET member_count == Len(group.user_ids)
        visited == group_members(group)
        added == [i \in 1..Len(visited) |-> member_contribution(visited[i])]
        group_chats == SumSeq([i \in 1..Len(visited) |-> added[i].chats])
        group_files == SumSeq([i \in 1..Len(visited) |-> added[i].files])
        group_images == SumSeq([i \in 1..Len(visited) |-> added[i].images])
        group_knowledge == SumSeq([i \in 1..Len(visited) |-> added[i].knowledge])
        group_messages == SumSeq([i \in 1..Len(visited) |-> added[i].messages])
        group_storage_mb == SumSeq([i \in 1..Len(visited) |-> added[i].storage_mb])
    IN  [group_id |-> group.id,
         member_count |-> member_count,
         total_chats |-> group_chats,
         total_files |-> group_files,
         total_images |-> group_images,
         total_knowledge |-> group_knowledge,
         total_messages |-> group_messages,
         storage_usage_mb |-> round2(group_storage_mb)]

\* key=lambda x: x.total_chats + x.total_files + x.total_images + x.total_knowledge
activity_key(x) == x.total_chats + x.total_files + x.total_images + x.total_knowledge

group_queries(fetched) ==
    Concat([i \in 1..Len(fetched) |->
              Repeat(PerUserQueries, Len(fetched[i].user_ids))])

\* `group_stats[:limit] if limit else group_stats`
apply_limit(group_stats, limit) ==
    IF limit # 0 THEN SliceTo(group_stats, limit) ELSE group_stats

sorted_group_stats ==
    LET fetched == get_groups
        group_stats == [i \in 1..Len(fetched) |-> group_row(fetched[i])]
        keys == [i \in 1..Len(group_stats) |-> activity_key(group_stats[i])]
    IN  sorted_by(group_stats, keys)

get_groups_activity_stats(limit, failAt) ==
    LET qlog == <<"group">> \o group_queries(get_groups)
    IN  ExceptClause("groups_activity", limit, "", failAt,
                     TryBlock(qlog, apply_limit(sorted_group_stats, limit), failAt),
                     "Failed to get groups activity statistics")

----------------------------------------------------------------------------
(* GET /content/types and the overview's breakdown *)

ContentTypeNames == <<"chats", "files", "images", "knowledge", "messages">>

\* as total_content_of, with the images left out of the sum
total_content_without_images(content_types) ==
    SumSeq([i \in 1..Len(content_types) |->
              IF content_types[i].type = "images" THEN 0 ELSE content_types[i].count])

\* sum(ct["count"] for ct in content_types)
total_content_of(content_types) ==
    SumSeq([i \in 1..Len(content_types) |-> content_types[i].count])

\* `(ct["count"] / total_content * 100) if total_content > 0 else 0`, rounded
percentage_of(count, total_content) ==
    IF total_content > 0 THEN round2_percentage(count, total_content) ELSE 0

breakdown_of(content_types) ==
    LET total_content == total_content_of(content_types)
    IN  [i \in 1..Len(content_types) |->
           [content_type |-> content_types[i].type,
            count |-> content_types[i].count,
            percentage |-> percentage_of(content_types[i].count, total_content),
            total_size_mb |-> round2(content_types[i].storage)]]

\* as content_type_stats, with the images' storage summed over the files
\* classified as images
content_type_stats_images_summed ==
    LET files_list == files
        files_storage_mb == files_storage_mb_of(files_list)
        content_types ==
            << [type |-> "chats", count |-> Len(chats), storage |-> chats_mb(Len(chats))],
               [type |-> "files", count |-> Len(files), storage |-> files_storage_mb],
               [type |-> "images", count |-> count_images(files_list),
                storage |-> files_storage_mb_of(SelectSeq(files_list, is_image))],
               [type |-> "knowledge", count |-> Len(knowledge),
                storage |-> knowledge_mb(Len(knowledge))],
               [type |-> "messages", count |-> Len(messages),
                storage |-> messages_mb(Len(messages))] >>
    IN  breakdown_of(content_types)

content_type_stats ==
    LET total_chats == Len(chats)
        total_files == Len(files)
        total_knowledge == Len(knowledge)
        total_messages == Len(messages)
        files_list == files
        total_images == count_images(files_list)
        files_storage_mb == files_storage_mb_of(files_list)
        knowledge_storage_mb == knowledge_mb(total_knowledge)
        chats_storage_mb == chats_mb(total_chats)
        messages_storage_mb == messages_mb(total_messages)
        content_types ==
            << [type |-> "chats", count |-> total_chats, storage |-> chats_storage_mb],
               [type |-> "files", count |-> total_files, storage |-> files_storage_mb],
               [type |-> "images", count |-> total_images,
                storage |-> images_mb(files_storage_mb)],
               [type |-> "knowledge", count |-> total_knowledge,
                storage |-> knowledge_storage_mb],
               [type |-> "messages", count |-> total_messages,
                storage |-> messages_storage_mb] >>
    IN  breakdown_of(content_types)

get_content_type_statistics(failAt) ==
    LET qlog == <<"chat", "file", "knowledge", "message", "file">>
    IN  ExceptClause("content_types", 0, "", failAt,
                     TryBlock(qlog, content_type_stats, failAt),
                     "Failed to get content type statistics")

----------------------------------------------------------------------------
(* GET /overview *)

overview_user_row(user_obj) ==
    LET user_chats == Len(by_user(chats, user_obj.id))
        user_file_list == by_user(files, user_obj.id)
        user_files == Len(user_file_list)
        user_images == count_images(user_file_list)
        user_knowledge == Len(by_user(knowledge, user_obj.id))
        user_messages == Len(by_user(messages, user_obj.id))
        user_storage_mb ==
            files_storage_mb_of(user_file_list) + knowledge_mb(user_knowledge)
              + chats_mb(user_chats) + messages_mb(user_messages)
    IN  [user_id |-> user_obj.id,
         total_chats |-> user_chats,
         total_files |-> user_files,
         total_images |-> user_images,
         total_knowledge |-> user_knowledge,
         total_messages |-> user_messages,
         storage_usage_mb |-> round2(user_storage_mb),
         last_active |-> user_obj.last_active_at]

overview_member_contribution(user_id) ==
    LET user_chats == Len(by_user(chats, user_id))
        user_file_list == by_user(files, user_id)
        user_files == Len(user_file_list)
        user_images_count == count_images(user_file_list)
        user_knowledge == Len(by_user(knowledge, user_id))
        user_messages == Len(by_user(messages, user_id))
    IN  [chats |-> user_chats,
         files |-> user_files,
         images |-> user_images_count,
         knowledge |-> user_knowledge,
         messages |-> user_messages,
         storage_mb |->
             files_storage_mb_of(user_file_list) + knowledge_mb(user_knowledge)
               + chats_mb(user_chats) + messages_mb(user_messages)]

overview_group_row(group) ==
    LET member_count == Len(group.user_ids)
        added == [i \in 1..member_count |->
                    overview_member_contribution(group.user_ids[i])]
        group_chats == SumSeq([i \in 1..member_count |-> added[i].chats])
        group_files == SumSeq([i \in 1..member_count |-> added[i].files])
        group_images == SumSeq([i \in 1..member_count |-> added[i].images])
        group_knowledge == SumSeq([i \in 1..member_count |-> added[i].knowledge])
        group_messages == SumSeq([i \in 1..member_count |-> added[i].messages])
        group_storage_mb == SumSeq([i \in 1..member_count |-> added[i].storage_mb])
    IN  [group_id |-> group.id,
         member_count |-> member_count,
         total_chats |-> group_chats,
         total_files |-> group_files,
         total_images |-> group_images,
         total_knowledge |-> group_knowledge,
         total_messages |-> group_messages,
         storage_usage_mb |-> round2(group_storage_mb)]

\* as overview_total_storage_mb, with the images figure added as a fifth term
overview_total_with_images(files_mb, knowledge_storage_mb, chats_storage_mb, messages_storage_mb) ==
    files_mb + images_mb(files_mb) + knowledge_storage_mb
      + chats_storage_mb + messages_storage_mb

overview_total_storage_mb(files_mb, knowledge_storage_mb, chats_storage_mb, messages_storage_mb) ==
    files_mb + knowledge_storage_mb + chats_storage_mb + messages_storage_mb

\* as overview_top_users, with the users capped at the fetch, before they are
\* ranked
overview_top_users_capped_at_fetch ==
    LET fetched == get_users(TopN)
        user_stats == [i \in 1..Len(fetched) |-> overview_user_row(fetched[i])]
        keys == [i \in 1..Len(user_stats) |-> user_stats[i].storage_usage_mb]
    IN  SliceTo(sorted_by(user_stats, keys), TopN)

overview_top_users ==
    LET fetched == get_users(0)
        user_stats == [i \in 1..Len(fetched) |-> overview_user_row(fetched[i])]
        keys == [i \in 1..Len(user_stats) |-> user_stats[i].storage_usage_mb]
    IN  SliceTo(sorted_by(user_stats, keys), TopN)

overview_top_groups ==
    LET fetched == get_groups
        group_stats == [i \in 1..Len(fetched) |-> overview_group_row(fetched[i])]
        keys == [i \in 1..Len(group_stats) |-> activity_key(group_stats[i])]
    IN  SliceTo(sorted_by(group_stats, keys), TopN)

active_users_since(threshold) ==
    Len(SelectSeq(users, LAMBDA u : u.last_active_at >= threshold))

dashboard_overview ==
    LET total_users == Len(users)
        seven_days_ago == Now - 7 * DaySeconds
        thirty_days_ago == Now - 30 * DaySeconds
        total_chats == Len(chats)
        total_files == Len(files)
        total_knowledge == Len(knowledge)
        total_messages == Len(messages)
        total_images == count_images(files)
        files_storage_mb == files_storage_mb_of(files)
        knowledge_storage_mb == knowledge_mb(total_knowledge)
        chats_storage_mb == chats_mb(total_chats)
        messages_storage_mb == messages_mb(total_messages)
        total_storage_mb ==
            overview_total_storage_mb(files_storage_mb, knowledge_storage_mb,
                                      chats_storage_mb, messages_storage_mb)
        content_types ==
            << [type |-> "chats", count |-> total_chats, storage |-> chats_storage_mb],
               [type |-> "files", count |-> total_files, storage |-> files_storage_mb],
               [type |-> "images", count |-> total_images,
                storage |-> images_mb(files_storage_mb)],
               [type |-> "knowledge", count |-> total_knowledge,
                storage |-> knowledge_storage_mb],
               [type |-> "messages", count |-> total_messages,
                storage |-> messages_storage_mb] >>
    IN  [total_users |-> total_users,
         active_users_7d |-> active_users_since(seven_days_ago),
         active_users_30d |-> active_users_since(thirty_days_ago),
         total_chats |-> total_chats,
         total_files |-> total_files,
         total_images |-> total_images,
         total_knowledge |-> total_knowledge,
         total_messages |-> total_messages,
         total_storage_mb |-> round2(total_storage_mb),
         content_type_breakdown |-> breakdown_of(content_types),
         top_users_by_storage |-> overview_top_users,
         top_groups_by_activity |-> overview_top_groups]

get_dashboard_overview(failAt) ==
    LET qlog == <<"user", "user", "user", "chat", "file", "knowledge", "message", "file">>
                  \o <<"user">> \o Repeat(PerUserQueries, Len(get_users(0)))
                  \o <<"group">> \o group_queries(get_groups)
    IN  ExceptClause("overview", 0, "", failAt,
                     TryBlock(qlog, dashboard_overview, failAt),
                     "Failed to get dashboard overview")

----------------------------------------------------------------------------
(* GET /time-series *)

ValidPeriods == {"7d", "30d", "90d"}

\* the if/elif chain on period
period_days(period) ==
    IF period = "7d" THEN 7
    ELSE IF period = "30d" THEN 30
    ELSE IF period = "90d" THEN 90
    ELSE 0

\* the "Debug" queries between the period check and the loop
DebugQueries == <<"chat", "file", "message", "knowledge", "message">>
BucketQueries == <<"chat", "file", "file", "knowledge", "message">>

\* One pass of `for i in range(days)`.  knowledge_created is the loop's local
\* (it reaches the response only through storage_used_mb).
time_bucket(start_time, i) ==
    LET period_start == start_time + i * DaySeconds
        period_end == period_start + DaySeconds
        chats_created == Len(created_between(chats, period_start, period_end))
        period_files == created_between(files, period_start, period_end)
        files_uploaded == Len(period_files)
        images_generated == count_images(period_files)
        knowledge_created == Len(created_between(knowledge, period_start, period_end))
        period_start_ns == to_ns(period_start)
        period_end_ns == to_ns(period_end)
        messages_sent == Len(messages_between(period_start_ns, period_end_ns))
        storage_used_mb ==
            files_storage_mb_of(period_files) + knowledge_mb(knowledge_created)
              + chats_mb(chats_created) + messages_mb(messages_sent)
    IN  [period_start |-> period_start,
         chats_created |-> chats_created,
         files_uploaded |-> files_uploaded,
         images_generated |-> images_generated,
         knowledge_created |-> knowledge_created,
         messages_sent |-> messages_sent,
         storage_used_mb |-> round2(storage_used_mb)]

\* as queries_before_rejection, with the period checked after the debug counts
queries_before_rejection_after_debug == DebugQueries

\* What the handler has asked of the store when it rejects the period
queries_before_rejection == <<>>

time_series_try(period, failAt) ==
    LET now == Now
        days == period_days(period)
        start_time == now - days * DaySeconds
        time_series_data == [k \in 1..days |-> time_bucket(start_time, k - 1)]
        qlog == DebugQueries \o Repeat(BucketQueries, days)
    IN  IF period \notin ValidPeriods
        THEN RaiseHTTPException(HTTP_400_BAD_REQUEST,
                                "Invalid period. Use 7d, 30d, or 90d",
                                queries_before_rejection)
        ELSE TryBlock(qlog, time_series_data, failAt)

get_time_series_statistics(period, failAt) ==
    ExceptClause("time_series", 0, period, failAt,
                 time_series_try(period, failAt),
                 "Failed to get time series statistics")

----------------------------------------------------------------------------
(* The state machine *)

Idle == resp = NoResp
NumEntities == Len(chats) + Len(files) + Len(knowledge) + Len(messages)

Init ==
    /\ users = UserRows
    /\ groups = GroupRows
    /\ chats = <<>>
    /\ files = <<>>
    /\ knowledge = <<>>
    /\ messages = <<>>
    /\ resp = NoResp

\* Writes to the store by its other clients, between requests
InsertChat(owners, times) ==
    /\ Idle /\ NumEntities < MaxEntities
    /\ \E u \in owners, t \in times :
          chats' = Append(chats, [user_id |-> u, created_at |-> t])
    /\ UNCHANGED <<users, groups, files, knowledge, messages, resp>>

InsertFile(owners, times, metas) ==
    /\ Idle /\ NumEntities < MaxEntities
    /\ \E u \in owners, t \in times, m \in metas :
          files' = Append(files, [user_id |-> u, created_at |-> t, meta |-> m])
    /\ UNCHANGED <<users, groups, chats, knowledge, messages, resp>>

InsertKnowledge(owners, times) ==
    /\ Idle /\ NumEntities < MaxEntities
    /\ \E u \in owners, t \in times :
          knowledge' = Append(knowledge, [user_id |-> u, created_at |-> t])
    /\ UNCHANGED <<users, groups, chats, files, messages, resp>>

InsertMessage(owners, times, nanos) ==
    /\ Idle /\ NumEntities < MaxEntities
    /\ \E u \in owners, t \in times, n \in nanos :
          messages' = Append(messages,
                             [user_id |-> u, created_at |-> [s |-> t, ns |-> n]])
    /\ UNCHANGED <<users, groups, chats, files, knowledge, resp>>

UsersStorage ==
    /\ Idle
    /\ \E limit \in UserLimits, failAt \in FailPoints :
          resp' = get_users_storage_stats(limit, failAt)
    /\ UNCHANGED store

GroupsActivity ==
    /\ Idle
    /\ \E limit \in Limits, failAt \in FailPoints :
          resp' = get_groups_activity_stats(limit, failAt)
    /\ UNCHANGED store

ContentTypes ==
    /\ Idle
    /\ \E failAt \in FailPoints : resp' = get_content_type_statistics(failAt)
    /\ UNCHANGED store

Overview ==
    /\ Idle
    /\ \E failAt \in FailPoints : resp' = get_dashboard_overview(failAt)
    /\ UNCHANGED store

TimeSeries ==
    /\ Idle
    /\ \E period \in Periods, failAt \in FailPoints :
          resp' = get_time_series_statistics(period, failAt)
    /\ UNCHANGED store

\* The response is delivered; the handler keeps nothing
Return ==
    /\ ~Idle
    /\ resp' = NoResp
    /\ UNCHANGED store

Next ==
    \/ InsertChat(UserIds, {T0})
    \/ InsertFile(UserIds, {T0}, Metas)
    \/ InsertKnowledge(UserIds, {T0})
    \/ InsertMessage(UserIds, {T0}, {0})
    \/ UsersStorage
    \/ GroupsActivity
    \/ ContentTypes
    \/ Overview
    \/ TimeSeries
    \/ Return

Spec == Init /\ [][Next]_vars

\* The same machine with the rows' creation times varied (and one owner)
NextTS ==
    \/ InsertChat({"u1"}, TimeSamples)
    \/ InsertFile({"u1"}, TimeSamples, {MetaNone, MetaPng, MetaSmall})
    \/ InsertKnowledge({"u1"}, TimeSamples)
    \/ InsertMessage({"u1"}, TimeSamples, NsSamples)
    \/ TimeSeries
    \/ Return

SpecTS == Init /\ [][NextTS]_vars

\* The overview over a store of twelve users and twelve groups
InitTop ==
    /\ users = TopUserRows
    /\ groups = TopGroupRows
    /\ chats = <<>>
    /\ files = <<>>
    /\ knowledge = <<>>
    /\ messages = <<>>
    /\ resp = NoResp

NextTop ==
    \/ InsertChat(TopOwners, {T0})
    \/ InsertFile(TopOwners, {T0}, {MetaNone, MetaPng, MetaSmall})
    \/ InsertKnowledge(TopOwners, {T0})
    \/ InsertMessage(TopOwners, {T0}, {0})
    \/ Overview
    \/ Return

SpecTop == InitTop /\ [][NextTop]_vars

----------------------------------------------------------------------------
(* Reference definitions the properties are stated with *)

Abs(x) == IF x < 0 THEN 0 - x ELSE x
Range(f) == {f[i] : i \in DOMAIN f}

RECURSIVE SetSum(_, _)
SetSum(f, S) ==
    IF S = {} THEN 0
    ELSE LET x == CHOOSE y \in S : TRUE IN f[x] + SetSum(f, S \ {x})

Ok(op) == resp.op = op /\ resp.status = 200

\* The declared byte size of a file, 0 when it declares none
DeclaredSize(f) ==
    IF f.meta.pytype = "dict" /\ "size" \in f.meta.keys THEN f.meta.size ELSE 0

\* h hundredths is (bytes / 1,048,576 + whole / 100) MB rounded to 2 decimals
IsRounded(h, bytes, whole) ==
    LET d == 2 * (bytes * 100 - (h - whole) * BytesPerMB)
    IN  /\ Abs(d) <= BytesPerMB
        /\ Abs(d) = BytesPerMB => h % 2 = 0

\* A scope: the rows of each table that belong to it, as sets of positions
ScopeOfOwners(owners) ==
    [files |-> {i \in 1..Len(files) : files[i].user_id \in owners},
     knowledge |-> {i \in 1..Len(knowledge) : knowledge[i].user_id \in owners},
     chats |-> {i \in 1..Len(chats) : chats[i].user_id \in owners},
     messages |-> {i \in 1..Len(messages) : messages[i].user_id \in owners}]

GlobalScope ==
    [files |-> 1..Len(files), knowledge |-> 1..Len(knowledge),
     chats |-> 1..Len(chats), messages |-> 1..Len(messages)]

\* Bucket i (0-based) of a window starting at start: creation times t with
\* start + i*86400 <= t < start + (i+1)*86400
InBucket(t, start, i) == t >= start /\ (t - start) \div DaySeconds = i

ScopeOfBucket(start, i) ==
    [files |-> {j \in 1..Len(files) : InBucket(files[j].created_at, start, i)},
     knowledge |-> {j \in 1..Len(knowledge) :
                      InBucket(knowledge[j].created_at, start, i)},
     chats |-> {j \in 1..Len(chats) : InBucket(chats[j].created_at, start, i)},
     messages |-> {j \in 1..Len(messages) :
                     InBucket(messages[j].created_at.s, start, i)}]

\* total MB = files_mb + knowledge*1 + chats*0.1 + messages*0.01, rounded once
IsTotalOfScope(h, scope) ==
    IsRounded(h,
              SetSum([i \in 1..Len(files) |-> DeclaredSize(files[i])], scope.files),
              100 * Cardinality(scope.knowledge) + 10 * Cardinality(scope.chats)
                + Cardinality(scope.messages))

GroupById(id) == CHOOSE g \in Range(groups) : g.id = id
MembersOf(id) == Range(GroupById(id).user_ids)
DaysOf(period) == CASE period = "7d" -> 7 [] period = "30d" -> 30 [] period = "90d" -> 90

\* The user and group summaries of the response, whichever operation it is of
UserSummaries ==
    IF Ok("users_storage") THEN Range(resp.body)
    ELSE IF Ok("overview") THEN Range(resp.body.top_users_by_storage)
    ELSE {}

GroupSummaries ==
    IF Ok("groups_activity") THEN Range(resp.body)
    ELSE IF Ok("overview") THEN Range(resp.body.top_groups_by_activity)
    ELSE {}

BucketIndexes == IF Ok("time_series") THEN 1..Len(resp.body) ELSE {}
WindowStart == Now - DaysOf(resp.period) * DaySeconds

TimeSeriesRejected == resp.op = "time_series" /\ resp.period \notin ValidPeriods

----------------------------------------------------------------------------
(* Properties *)

\* C1 (as claimed): in the time-series operation a period other than 7d, 30d
\* or 90d yields the input-validation error (400), an outcome distinct from
\* the generic internal error (500) that unexpected failures yield.
C1_InvalidPeriodIsValidationError ==
    TimeSeriesRejected =>
        /\ resp.status = HTTP_400_BAD_REQUEST
        /\ resp.status # HTTP_500_INTERNAL_SERVER_ERROR
        /\ resp.detail # "Failed to get time series statistics"

\* C2: a time-series request with a period outside {7d, 30d, 90d} is
\* rejected, and over the whole request no count or fetch query against
\* chats, files, knowledge or messages is issued.
C2_NoStoreAccessOnInvalidPeriod ==
    TimeSeriesRejected =>
        /\ resp.status # 200
        /\ resp.body = <<>>
        /\ \A i \in 1..Len(resp.qlog) :
              resp.qlog[i] \notin {"chat", "file", "knowledge", "message"}

\* an invalid period was rejected while the store held rows to query
C2_Witness ==
    /\ TimeSeriesRejected
    /\ resp.period = "60d"
    /\ resp.status # 200
    /\ NumEntities > 0

\* C3: for every scope an operation reports (the overview's global total,
\* each user summary, each group summary, each time-series bucket) the total
\* MB is files_mb + knowledge*1 + chats*0.1 + messages*0.01 rounded to 2
\* decimals once, files_mb being the declared bytes / 1,048,576 of the
\* scope's files; files of 1,048,576, 2,097,152 and 0 bytes with 2 knowledge
\* entries, 10 chats and 100 messages give 7.00.
C3_Example ==
    LET sized(n) ==
            [user_id |-> "u1", created_at |-> T0,
             meta |-> [pytype |-> "dict", keys |-> {"name", "size"},
                       content_type |-> "", size |-> n]]
        three == <<sized(BytesPerMB), sized(2 * BytesPerMB), sized(0)>>
    IN  round2(files_storage_mb_of(three) + knowledge_mb(2) + chats_mb(10)
                 + messages_mb(100)) = 700

C3_TotalMbFormula ==
    /\ C3_Example
    /\ Ok("overview") => IsTotalOfScope(resp.body.total_storage_mb, GlobalScope)
    /\ \A r \in UserSummaries :
          IsTotalOfScope(r.storage_usage_mb, ScopeOfOwners({r.user_id}))
    /\ \A r \in GroupSummaries :
          IsTotalOfScope(r.storage_usage_mb, ScopeOfOwners(MembersOf(r.group_id)))
    /\ \A i \in BucketIndexes :
          IsTotalOfScope(resp.body[i].storage_used_mb, ScopeOfBucket(WindowStart, i - 1))

\* a user summary over two sized files whose sum rounds differently from the
\* files rounded one by one
C3_Witness ==
    /\ Ok("users_storage")
    /\ \E r \in Range(resp.body) :
          /\ r.total_files = 2
          /\ r.storage_usage_mb = 1
          /\ \A i \in 1..Len(files) : files[i].meta = MetaSmall

\* C4 (as claimed): the overview's total storage is the sum of the five
\* category figures of its breakdown, images (30% of files) included.
C4_TotalIsSumOfFiveCategories ==
    Ok("overview") =>
        resp.body.total_storage_mb =
            SumSeq([i \in 1..5 |-> resp.body.content_type_breakdown[i].total_size_mb])

\* C4 (amended): the overview's total storage is the sum of the chats,
\* files, knowledge and messages figures, rounded once (so within 0.01 of the
\* sum of those four reported figures); the images figure, 30% of the files
\* figure, is reported in the breakdown and is not part of the total.
C4_TotalIsSumOfFourWithoutImages ==
    Ok("overview") =>
        LET b == resp.body.content_type_breakdown
            size(name) == (CHOOSE i \in 1..5 : b[i].content_type = name)
            four == b[size("chats")].total_size_mb + b[size("files")].total_size_mb
                      + b[size("knowledge")].total_size_mb
                      + b[size("messages")].total_size_mb
            images == b[size("images")].total_size_mb
        IN  /\ Abs(resp.body.total_storage_mb - four) <= 1
            /\ Abs(images * 10 - 3 * b[size("files")].total_size_mb) <= 8
            /\ images >= 2 => resp.body.total_storage_mb # four + images

\* an overview over a file of 1 MB: files 1.00, images 0.30, total 1.00
C4_Witness ==
    /\ Ok("overview")
    /\ resp.body.content_type_breakdown[2].total_size_mb = 100
    /\ resp.body.content_type_breakdown[3].total_size_mb = 30
    /\ resp.body.total_storage_mb >= 100

\* The content-type breakdown of the response, <<>> when it carries none
Breakdown ==
    IF Ok("content_types") THEN resp.body
    ELSE IF Ok("overview") THEN resp.body.content_type_breakdown
    ELSE <<>>

\* A file is an image when its metadata is a mapping whose content_type is
\* one of the four literal media types
IsImageFile(f) ==
    /\ f.meta.pytype = "dict"
    /\ "content_type" \in f.meta.keys
    /\ f.meta.content_type \in {"image/png", "image/jpeg", "image/gif", "image/webp"}

ImagesIn(scope) == Cardinality({i \in scope.files : IsImageFile(files[i])})

\* C5: in the breakdown of the content-types operation and of the overview,
\* each category's percentage is its count over the sum of the five counts
\* (chats, files, images, knowledge, messages) times 100, to 2 decimals; when
\* that sum is > 0 the five percentages sum to 100 within 0.05, when it is 0
\* every percentage is 0, and the division fails in neither case.
C5_Percentages ==
    /\ resp.op \in {"content_types", "overview"} /\ resp.failAt = 0 => resp.status = 200
    /\ Breakdown # <<>> =>
          LET b == Breakdown
              total == Len(chats) + Len(files) + ImagesIn(GlobalScope)
                         + Len(knowledge) + Len(messages)
              percentages == SumSeq([i \in 1..Len(b) |-> b[i].percentage])
          IN  /\ [i \in 1..Len(b) |-> b[i].content_type] = ContentTypeNames
              /\ SumSeq([i \in 1..Len(b) |-> b[i].count]) = total
              /\ \A i \in 1..Len(b) :
                    2 * Abs(b[i].percentage * total - b[i].count * 10000) <= total
              /\ total > 0 => Abs(percentages - 10000) <= 5
              /\ total = 0 => \A i \in 1..Len(b) : b[i].percentage = 0

\* a breakdown of one chat and one image file: three categories at 33.33,
\* summing to 99.99
C5_Witness ==
    /\ Ok("content_types")
    /\ resp.body[1].percentage = 3333
    /\ resp.body[3].percentage = 3333
    /\ SumSeq([i \in 1..5 |-> resp.body[i].percentage]) = 9999

\* C6: in every scope an operation reports, the image count is the number of
\* the scope's files whose metadata is a mapping with content_type exactly
\* image/png, image/jpeg, image/gif or image/webp, and never exceeds the
\* scope's file count.
C6_ImagesWithinFiles ==
    /\ Ok("overview") =>
          /\ resp.body.total_images = ImagesIn(GlobalScope)
          /\ resp.body.total_images <= resp.body.total_files
    /\ Breakdown # <<>> =>
          /\ Breakdown[3].count = ImagesIn(GlobalScope)
          /\ Breakdown[3].count <= Breakdown[2].count
    /\ \A r \in UserSummaries :
          /\ r.total_images = ImagesIn(ScopeOfOwners({r.user_id}))
          /\ r.total_images <= r.total_files
    /\ \A r \in GroupSummaries :
          /\ r.total_images = ImagesIn(ScopeOfOwners(MembersOf(r.group_id)))
          /\ r.total_images <= r.total_files
    /\ \A i \in BucketIndexes :
          /\ resp.body[i].images_generated = ImagesIn(ScopeOfBucket(WindowStart, i - 1))
          /\ resp.body[i].images_generated <= resp.body[i].files_uploaded

\* a user summary over an image/png file and an image/svg+xml file: 2 files,
\* 1 image
C6_Witness ==
    /\ Ok("users_storage")
    /\ \E r \in Range(resp.body) : r.total_files = 2 /\ r.total_images = 1
    /\ \E i \in 1..Len(files) : files[i].meta = MetaSvg

FetchPosition(user_id) == CHOOSE i \in 1..Len(users) : users[i].id = user_id

\* C7: the per-user storage listing is in descending order of total MB, and
\* users with equal total MB keep the relative order in which they were
\* fetched.
C7_UsersSortedStable ==
    Ok("users_storage") =>
        \A i, j \in 1..Len(resp.body) :
            i < j =>
                /\ resp.body[i].storage_usage_mb >= resp.body[j].storage_usage_mb
                /\ resp.body[i].storage_usage_mb = resp.body[j].storage_usage_mb =>
                      FetchPosition(resp.body[i].user_id)
                        < FetchPosition(resp.body[j].user_id)

\* the user fetched last has the most MB and is listed first; the two
\* fetched before it, equal in MB, follow in fetch order
C7_Witness ==
    /\ Ok("users_storage")
    /\ Len(resp.body) = 3
    /\ resp.body[1].user_id = "u3"
    /\ resp.body[2].user_id = "u1"
    /\ resp.body[3].user_id = "u2"
    /\ resp.body[1].storage_usage_mb > resp.body[2].storage_usage_mb
    /\ resp.body[2].storage_usage_mb = resp.body[3].storage_usage_mb

\* What one user owns, counted from the tables
OwnCount(rows, user_id) == Cardinality({i \in 1..Len(rows) : rows[i].user_id = user_id})
OwnImages(user_id) == ImagesIn(ScopeOfOwners({user_id}))
OwnBytes(user_id) ==
    SetSum([i \in 1..Len(files) |-> DeclaredSize(files[i])],
           {i \in 1..Len(files) : files[i].user_id = user_id})

\* C8: each group summary (of the group listing and of the overview) is the
\* sum, over the group's member user ids, of the member's own counts and
\* estimated MB; a user in two groups adds the same to both.
C8_GroupIsSumOfMembers ==
    \A r \in GroupSummaries :
        LET ids == GroupById(r.group_id).user_ids
            over(f) == SumSeq([k \in 1..Len(ids) |-> f[ids[k]]])
        IN  /\ r.member_count = Len(ids)
            /\ r.total_chats = over([u \in UserIds |-> OwnCount(chats, u)])
            /\ r.total_files = over([u \in UserIds |-> OwnCount(files, u)])
            /\ r.total_images = over([u \in UserIds |-> OwnImages(u)])
            /\ r.total_knowledge = over([u \in UserIds |-> OwnCount(knowledge, u)])
            /\ r.total_messages = over([u \in UserIds |-> OwnCount(messages, u)])
            /\ IsRounded(r.storage_usage_mb,
                         over([u \in UserIds |-> OwnBytes(u)]),
                         over([u \in UserIds |->
                                 100 * OwnCount(knowledge, u) + 10 * OwnCount(chats, u)
                                   + OwnCount(messages, u)]))

\* u2, a member of g2 and of g3, owns a chat and a file, and both groups'
\* summaries count them
C8_Witness ==
    /\ Ok("groups_activity")
    /\ OwnCount(chats, "u2") = 1
    /\ OwnCount(files, "u2") = 1
    /\ \E r \in Range(resp.body) :
          r.group_id = "g2" /\ r.total_chats = 1 /\ r.total_files = 1
    /\ \E r \in Range(resp.body) :
          r.group_id = "g3" /\ r.total_chats = 1 /\ r.total_files = 1

\* Every group's activity sum, counted from the tables
ActivityOf(g) ==
    SumSeq([k \in 1..Len(g.user_ids) |->
              OwnCount(chats, g.user_ids[k]) + OwnCount(files, g.user_ids[k])
                + OwnImages(g.user_ids[k]) + OwnCount(knowledge, g.user_ids[k])])

GroupPosition(group_id) == CHOOSE i \in 1..Len(groups) : groups[i].id = group_id

\* g comes before h in the stable descending order of activity
RanksBefore(g, h) ==
    \/ ActivityOf(g) > ActivityOf(h)
    \/ ActivityOf(g) = ActivityOf(h) /\ GroupPosition(g.id) < GroupPosition(h.id)

\* The first n groups of that order: those with fewer than n groups before them
IsFirstOfAllGroups(body, n) ==
    /\ Len(body) = Min(n, Len(groups))
    /\ \A i \in 1..Len(body) :
          Cardinality({h \in Range(groups) : RanksBefore(h, GroupById(body[i].group_id))})
            = i - 1

\* C9 (as claimed): for every limit L the group listing is the first L
\* entries of all groups stable-sorted descending by chats + files + images +
\* knowledge, so it holds at most L entries.
C9_FirstLOfSortedGroups ==
    Ok("groups_activity") /\ resp.limit >= 0 =>
        /\ Len(resp.body) <= resp.limit
        /\ IsFirstOfAllGroups(resp.body, resp.limit)

\* C9, for the limits the code caps at: with L >= 1 the listing is the first
\* L entries of all groups in that order
C9_FirstLOfSortedGroupsPositiveL ==
    Ok("groups_activity") /\ resp.limit >= 1 =>
        /\ Len(resp.body) <= resp.limit
        /\ IsFirstOfAllGroups(resp.body, resp.limit)

\* C10: for period 7d/30d/90d the time series has 7/30/90 buckets, oldest
\* first; bucket i (0-based) counts the chats, files and knowledge entries
\* created in [now - days*86400 + i*86400, now - days*86400 + (i+1)*86400),
\* so every entry created in [now - days*86400, now) is counted in exactly
\* one bucket; with no entry in the window every count and MB is zero, and
\* no error is returned.
C10_Buckets ==
    /\ resp.op = "time_series" /\ resp.period \in ValidPeriods /\ resp.failAt = 0
          => resp.status = 200
    /\ Ok("time_series") =>
          LET days == DaysOf(resp.period)
              start == Now - days * DaySeconds
              b == resp.body
              counted(rows, field) ==
                  /\ \A i \in 1..days :
                        b[i][field] = Cardinality({j \in 1..Len(rows) :
                            /\ rows[j].created_at >= start + (i - 1) * DaySeconds
                            /\ rows[j].created_at < start + i * DaySeconds})
                  /\ SumSeq([i \in 1..days |-> b[i][field]])
                       = Cardinality({j \in 1..Len(rows) :
                            rows[j].created_at >= start /\ rows[j].created_at < Now})
              empty == \A t \in Range(chats) \cup Range(files) \cup Range(knowledge) :
                          t.created_at < start \/ t.created_at >= Now
              no_message == \A m \in Range(messages) :
                          m.created_at.s < start \/ m.created_at.s >= Now
          IN  /\ Len(b) = days
              /\ \A i \in 1..days : b[i].period_start = start + (i - 1) * DaySeconds
              /\ b[days].period_start + DaySeconds = Now
              /\ counted(chats, "chats_created")
              /\ counted(files, "files_uploaded")
              /\ counted(knowledge, "knowledge_created")
              /\ empty /\ no_message =>
                    \A i \in 1..days :
                        /\ b[i].chats_created = 0 /\ b[i].files_uploaded = 0
                        /\ b[i].images_generated = 0 /\ b[i].knowledge_created = 0
                        /\ b[i].messages_sent = 0 /\ b[i].storage_used_mb = 0

\* a 7d series over a chat created at the window's start and a chat created
\* at the edge between its first two buckets: one in each
C10_Witness ==
    /\ Ok("time_series")
    /\ resp.period = "7d"
    /\ \E j \in 1..Len(chats) : chats[j].created_at = Now - 7 * DaySeconds
    /\ \E j \in 1..Len(chats) : chats[j].created_at = Now - 6 * DaySeconds
    /\ resp.body[1].chats_created = 1
    /\ resp.body[2].chats_created = 1

\* C11: in the time series a message, whose creation time is in nanoseconds,
\* is counted in a bucket exactly when period_start * 10^9 <= created_at <
\* period_end * 10^9, that is when the second it was created in lies in the
\* bucket's window; a message and a chat created at the same instant are
\* counted in the same bucket.
C11_MessagesInNanoseconds ==
    Ok("time_series") =>
        LET days == DaysOf(resp.period)
            start == Now - days * DaySeconds
            b == resp.body
        IN  /\ \A i \in 1..days :
                  b[i].messages_sent = Cardinality({j \in 1..Len(messages) :
                      /\ messages[j].created_at.s >= start + (i - 1) * DaySeconds
                      /\ messages[j].created_at.s < start + i * DaySeconds})
            /\ (/\ Len(chats) = 1 /\ Len(messages) = 1
                /\ messages[1].created_at.s = chats[1].created_at)
                  => \A i \in 1..days : b[i].messages_sent = b[i].chats_created

\* a 7d series over a chat created at the edge between the first two buckets
\* and a message created in the same second: both counted in the second
\* bucket, neither in the first
C11_Witness ==
    /\ Ok("time_series")
    /\ resp.period = "7d"
    /\ chats = <<[user_id |-> "u1", created_at |-> Now - 6 * DaySeconds]>>
    /\ Len(messages) = 1
    /\ messages[1].created_at = [s |-> Now - 6 * DaySeconds, ns |-> 999999999]
    /\ resp.body[1].messages_sent = 0
    /\ resp.body[2].messages_sent = 1
    /\ resp.body[2].chats_created = 1

\* The queries a request issues when none fails, counted from the tables
QueriesOfRequest ==
    LET per_member == 5
        members == SumSeq([i \in 1..Len(groups) |-> Len(groups[i].user_ids)])
        fetched_users ==
            IF resp.limit > 0 THEN Min(resp.limit, Len(users)) ELSE Len(users)
    IN  CASE resp.op = "overview" ->
               8 + 1 + per_member * Len(users) + 1 + per_member * members
          [] resp.op = "users_storage" -> 1 + per_member * fetched_users
          [] resp.op = "groups_activity" -> 1 + per_member * members
          [] resp.op = "content_types" -> 5
          [] resp.op = "time_series" ->
               IF resp.period \in ValidPeriods THEN 5 + 5 * DaysOf(resp.period) ELSE 0
          [] OTHER -> 0

\* A query of the request in progress failed
QueryFailed == resp.op # "none" /\ resp.failAt \in 1..QueriesOfRequest

GenericDetails ==
    [overview |-> "Failed to get dashboard overview",
     users_storage |-> "Failed to get users storage statistics",
     groups_activity |-> "Failed to get groups activity statistics",
     content_types |-> "Failed to get content type statistics",
     time_series |-> "Failed to get time series statistics"]

\* The result holds every entry of the aggregate
IsFullResult ==
    CASE resp.op = "overview" ->
           /\ Len(resp.body.content_type_breakdown) = 5
           /\ Len(resp.body.top_users_by_storage) = Min(TopN, Len(users))
           /\ Len(resp.body.top_groups_by_activity) = Min(TopN, Len(groups))
           /\ resp.body.total_users = Len(users)
      [] resp.op = "users_storage" ->
           {resp.body[i].user_id : i \in 1..Len(resp.body)}
             = {users[i].id : i \in 1..(IF resp.limit > 0
                                         THEN Min(resp.limit, Len(users))
                                         ELSE Len(users))}
      [] resp.op = "groups_activity" ->
           resp.limit >= Len(groups) => Len(resp.body) = Len(groups)
      [] resp.op = "content_types" -> Len(resp.body) = 5
      [] resp.op = "time_series" -> Len(resp.body) = DaysOf(resp.period)

\* C12: in each of the five operations, when a store query fails at any
\* point of the request the outcome is the generic internal error, with no
\* result and nothing of the underlying exception; a request returns either
\* that error or the full aggregate computed from all of its queries.
C12_ErrorOrFullResult ==
    resp.op # "none" =>
        /\ QueryFailed => resp.status = HTTP_500_INTERNAL_SERVER_ERROR
        /\ resp.status \in {200, HTTP_500_INTERNAL_SERVER_ERROR}
        /\ resp.status = HTTP_500_INTERNAL_SERVER_ERROR =>
              /\ resp.body = <<>>
              /\ resp.detail = GenericDetails[resp.op]
        /\ resp.status = 200 =>
              /\ ~QueryFailed
              /\ Len(resp.qlog) = QueriesOfRequest
              /\ IsFullResult

\* the 16th query of an overview, in the loop over the users, fails after
\* the global counts were read from a store that holds rows
C12_Witness ==
    /\ resp.op = "overview"
    /\ resp.failAt = 16
    /\ Len(resp.qlog) = 16
    /\ NumEntities > 0
    /\ resp.status = HTTP_500_INTERNAL_SERVER_ERROR
    /\ resp.body = <<>>

\* The total MB reported for one user, from the tables
UserMbOf(user_id) ==
    CHOOSE h \in 0..(100 * (MaxEntities + 1)) :
        IsTotalOfScope(h, ScopeOfOwners({user_id}))

\* u comes before v in the stable descending order of total MB
UserRanksBefore(u, v) ==
    \/ UserMbOf(u) > UserMbOf(v)
    \/ UserMbOf(u) = UserMbOf(v) /\ FetchPosition(u) < FetchPosition(v)

AllUserIds == {users[i].id : i \in 1..Len(users)}

\* C13: the overview's top users are the first 10 of ALL users stable-sorted
\* descending by total MB, and its top groups the first 10 of ALL groups
\* stable-sorted descending by chats + files + images + knowledge; no user or
\* group left out has a strictly higher key than one listed.
C13_TopListsRankEveryone ==
    Ok("overview") =>
        LET tu == resp.body.top_users_by_storage
            tg == resp.body.top_groups_by_activity
            listed_users == {tu[i].user_id : i \in 1..Len(tu)}
            listed_groups == {tg[i].group_id : i \in 1..Len(tg)}
        IN  /\ Len(tu) = Min(TopN, Len(users))
            /\ \A i \in 1..Len(tu) :
                  /\ tu[i].storage_usage_mb = UserMbOf(tu[i].user_id)
                  /\ Cardinality({v \in AllUserIds : UserRanksBefore(v, tu[i].user_id)})
                       = i - 1
            /\ \A v \in AllUserIds \ listed_users : \A u \in listed_users :
                  UserMbOf(v) <= UserMbOf(u)
            /\ IsFirstOfAllGroups(tg, TopN)
            /\ \A h \in Range(groups) : \A i \in 1..Len(tg) :
                  h.id \notin listed_groups
                    => ActivityOf(h) <= ActivityOf(GroupById(tg[i].group_id))

\* twelve users and twelve groups: the two users fetched last own the only
\* rows and head the top users, u10 and u9 are left out; g12 and g11 head
\* the top groups, g10 and g9 are left out
C13_Witness ==
    /\ Ok("overview")
    /\ Len(users) = 12 /\ Len(groups) = 12
    /\ Len(resp.body.top_users_by_storage) = 10
    /\ resp.body.top_users_by_storage[1].user_id = "u12"
    /\ resp.body.top_users_by_storage[2].user_id = "u11"
    /\ resp.body.top_users_by_storage[10].user_id = "u8"
    /\ Len(resp.body.top_groups_by_activity) = 10
    /\ resp.body.top_groups_by_activity[1].group_id = "g12"
    /\ resp.body.top_groups_by_activity[2].group_id = "g11"
    /\ resp.body.top_groups_by_activity[10].group_id = "g8"

\* h hundredths is 0.3 x (the declared bytes of all files, in MB) rounded to 2
\* decimals
IsThreeTenthsOfFilesMb(h) ==
    LET bytes == SetSum([i \in 1..Len(files) |-> DeclaredSize(files[i])],
                        1..Len(files))
        d == 2 * (bytes * 30 - h * BytesPerMB)
    IN  /\ Abs(d) <= BytesPerMB
        /\ Abs(d) = BytesPerMB => h % 2 = 0

\* C14: on one store state the overview's content_type_breakdown equals the
\* list of the content-types operation: the five categories chats, files,
\* images, knowledge, messages in that order with the same count, percentage
\* and MB; in both the images MB is 0.3 x the files MB.
C14_OverviewBreakdownIsContentTypes ==
    /\ Ok("overview") => resp.body.content_type_breakdown = content_type_stats
    /\ Ok("content_types") => resp.body = dashboard_overview.content_type_breakdown
    /\ Breakdown # <<>> =>
          /\ [i \in 1..Len(Breakdown) |-> Breakdown[i].content_type]
               = <<"chats", "files", "images", "knowledge", "messages">>
          /\ IsThreeTenthsOfFilesMb(Breakdown[3].total_size_mb)

\* a 1 MB png and a 5300-byte file without content type: files 1.01 MB, one
\* image, images 0.30 MB where the image's own size is 1.00 MB
C14_Witness ==
    /\ Ok("content_types")
    /\ resp.body = dashboard_overview.content_type_breakdown
    /\ resp.body[2].count = 2 /\ resp.body[2].total_size_mb = 101
    /\ resp.body[3].count = 1 /\ resp.body[3].total_size_mb = 30
    /\ \E i \in 1..Len(files) : IsImageFile(files[i]) /\ DeclaredSize(files[i]) = BytesPerMB

\* C15: the per-user storage listing applies the caller's limit L (L >= 1)
\* at the fetch, before any stats are computed or sorted: only the first L
\* users in fetch order are queried and returned, in stable descending order
\* of total MB among themselves; a user beyond position L is never returned,
\* whatever their total MB.
C15_LimitAppliedAtFetch ==
    (Ok("users_storage") /\ resp.limit >= 1) =>
        LET fetched_ids == {users[i].id : i \in 1..Min(resp.limit, Len(users))}
            listed == {resp.body[i].user_id : i \in 1..Len(resp.body)}
        IN  /\ listed = fetched_ids
            /\ Len(resp.body) = Cardinality(fetched_ids)
            /\ Len(resp.qlog) = 1 + 5 * Cardinality(fetched_ids)
            /\ \A i \in 1..Len(resp.body) :
                  /\ resp.body[i].storage_usage_mb = UserMbOf(resp.body[i].user_id)
                  /\ Cardinality({v \in listed :
                                    UserRanksBefore(v, resp.body[i].user_id)}) = i - 1

\* limit 2 over three users: the third user holds more MB than either of the
\* first two and is not returned; the two returned are reordered by MB
C15_Witness ==
    /\ Ok("users_storage")
    /\ resp.limit = 2
    /\ Len(users) = 3
    /\ Len(resp.body) = 2
    /\ resp.body[1].user_id = "u2"
    /\ resp.body[2].user_id = "u1"
    /\ UserMbOf("u3") > resp.body[1].storage_usage_mb

=============================================================================
